---- MODULE Spec2Model ----
(***************************************************************************)
(* Client tun setup for Windows (openvpn/tun/win/client/tunsetup.hpp).     *)
(*                                                                         *)
(* TunWin::Setup owns one member, remove_cmds, the ActionList that undoes  *)
(* the adapter configuration of the running session.  establish() closes   *)
(* out the old list, opens a TAP adapter, lets adapter_config() populate   *)
(* an add list and a remove list from the pulled configuration, executes   *)
(* the add list and then enables the remove list.  destroy() runs and      *)
(* drops the remove list; ~Setup() calls destroy().                        *)
(*                                                                         *)
(* Commands are kept as records of their words, the host as the set of     *)
(* configuration entries the commands add and delete.                      *)
(***************************************************************************)
EXTENDS Integers, Sequences, FiniteSets, TLC

(***************************************************************************)
(* Bounds of the model.                                                    *)
(***************************************************************************)
\* undo commands that may fail in one run of a remove list
MaxUndoFail == 2
\* entries of pull.add_routes
MaxRoutes == 2
\* entries of pull.search_domains
MaxDomains == 2
\* the latest poll at which the adapter may come up, later than the last
\* poll the program makes
MaxReadyPoll == 32

\* every sequence over S of length at most n
BoundedSeq(S, n) == UNION {[1..k -> S] : k \in 0..n}

\* the subsets of 1..n with at most MaxUndoFail members
FailSets(n) == {F \in SUBSET (1..n) : Cardinality(F) <= MaxUndoFail}

(***************************************************************************)
(* The pulled configuration (TunBuilderCapture) and the environment.       *)
(***************************************************************************)
\* pull.vpn_ipv4() == nullptr, pull.vpn_ipv6() == nullptr
NoAddr == [present |-> FALSE, address |-> "", prefix_length |-> 0, gateway |-> "", net30 |-> FALSE]

Local4Subnet == [present |-> TRUE, address |-> "10.8.0.2", prefix_length |-> 24, gateway |-> "10.8.0.1", net30 |-> FALSE]

Local4Net30 == [present |-> TRUE, address |-> "10.8.0.6", prefix_length |-> 30, gateway |-> "10.8.0.5", net30 |-> TRUE]

Local6Addr == [present |-> TRUE, address |-> "fd00::2", prefix_length |-> 64, gateway |-> "fd00::", net30 |-> FALSE]

Route4 == [address |-> "192.168.50.0", prefix_length |-> 24, ipv6 |-> FALSE]

Route6 == [address |-> "fd50::", prefix_length |-> 64, ipv6 |-> TRUE]

Exclude4 == [address |-> "172.16.0.0", prefix_length |-> 16, ipv6 |-> FALSE]

Exclude6 == [address |-> "fd16::", prefix_length |-> 48, ipv6 |-> TRUE]

Dns4a == [address |-> "10.8.0.53", ipv6 |-> FALSE]

Dns4b == [address |-> "10.8.0.54", ipv6 |-> FALSE]

Dns6a == [address |-> "fd00::53", ipv6 |-> TRUE]

Dns6b == [address |-> "fd00::54", ipv6 |-> TRUE]

Wins1 == [address |-> "10.8.0.60"]

Wins2 == [address |-> "10.8.0.61"]

Remote4 == [address |-> "203.0.113.7", ipv6 |-> FALSE]

Remote6 == [address |-> "2001:db8::7", ipv6 |-> TRUE]

\* search domains as sequences of characters: "", "e", ".e"
DomainChars == {<<>>, <<"e">>, <<".", "e">>}

\* the platform the process runs on: IsWindowsVistaOrGreater() holds on all
\* three, IsWindows7OrGreater() on win7 and win8, IsWindows8OrGreater() on win8
Platforms == {"vista", "win7", "win8"}

\* what reading local4->gateway through a null local4 may produce: the
\* process dies, or the four reads of the same object yield some string
UBOutcomes == {"crash", "junk-gw"}

(***************************************************************************)
(* Actions: one record per command.                                        *)
(***************************************************************************)
Cmd(verb, obj, fam, arg, num, ifc, hop, opt) ==
    [verb |-> verb, obj |-> obj, fam |-> fam, arg |-> arg, num |-> num,
     ifc |-> ifc, hop |-> hop, opt |-> opt, mask |-> <<>>, dsfx |-> <<>>, dserv |-> <<>>]

\* tap.index_or_name()
tap_index_name == "tap"

\* special IPv6 next-hop recognized by TAP driver
ipv6_next_hop == "fe80::8"

\* to_string(gw.interface_index()), gw.gateway_address()
gw_interface_index == "gwif"

gw_gateway_address == "192.168.1.1"

\* IPv4::Addr::netmask_from_prefix_len(n), as the four octets of the mask
netmask_from_prefix_len(n) ==
    [k \in 1..4 |->
        LET bits == IF n >= 8 * k THEN 8 ELSE IF n <= 8 * (k - 1) THEN 0 ELSE n - 8 * (k - 1)
        IN  256 - 2 ^ (8 - bits)]

ActionDeleteAllRoutesOnInterface == Cmd("delete", "allroutes", "ip", "", 0, tap_index_name, "", "")

FlushDns == Cmd("ipconfig", "flushdns", "", "", 0, "", "", "")

NetshRoute(verb, fam, address, prefix_length, ifc, hop) ==
    Cmd(verb, "route", fam, address, prefix_length, ifc, hop, "store=active")

(***************************************************************************)
(* adapter_config (Vista and higher): populate the create and destroy      *)
(* lists.  st carries the two lists as built so far, the exception thrown  *)
(* (err) and what was written to the adapter through its handle.           *)
(***************************************************************************)
Put(st, c, d) == [st EXCEPT !.create = @ \o c, !.destroy = @ \o d]

Throw(st, e) == [st EXCEPT !.err = e]

\* cfg_begin that leaves the media status of the adapter alone
cfg_begin_pure(st) ==
    Put(st, <<ActionDeleteAllRoutesOnInterface>>, <<>>)

\* set TAP media status to CONNECTED, queue the stale-route cleanup
cfg_begin(st) ==
    Put([st EXCEPT !.media = TRUE], <<ActionDeleteAllRoutesOnInterface>>, <<>>)

\* Set IPv4 Interface
cfg_ipv4(st, pull) ==
    LET local4 == pull.local4
    IN  IF local4.present
        THEN Put([st EXCEPT !.topology = IF local4.net30 THEN "net30" ELSE "subnet"],
                 <<[Cmd("set", "address", "ip", local4.address, 0,
                        tap_index_name, local4.gateway, "static store=active")
                      EXCEPT !.mask = netmask_from_prefix_len(local4.prefix_length)]>>,
                 <<Cmd("delete", "address", "ip", local4.address, 0,
                       tap_index_name, "all", "store=active")>>)
        ELSE st

block_ipv6_net == <<"2000::", "3000::", "fc00::">>

block_ipv6_len == <<4, 4, 7>>

\* Should we block IPv6?
cfg_block_ipv6(st, pull) ==
    IF pull.block_ipv6
    THEN Put(st,
             [i \in 1..Len(block_ipv6_net) |->
                 NetshRoute("add", "ipv6", block_ipv6_net[i], block_ipv6_len[i], "1", "")],
             [i \in 1..Len(block_ipv6_net) |->
                 NetshRoute("delete", "ipv6", block_ipv6_net[i], block_ipv6_len[i], "1", "")])
    ELSE st

\* cfg_ipv6 with the delete of the IPv6 route forgotten
cfg_ipv6_no_route_delete(st, pull) ==
    LET local6 == pull.local6
    IN  IF local6.present /\ ~pull.block_ipv6
        THEN Put(st,
                 <<Cmd("set", "address", "ipv6", local6.address, 0, tap_index_name, "", "store=active"),
                   NetshRoute("add", "ipv6", local6.gateway, local6.prefix_length, tap_index_name, ipv6_next_hop)>>,
                 <<Cmd("delete", "address", "ipv6", local6.address, 0, tap_index_name, "", "store=active")>>)
        ELSE st

\* Set IPv6 Interface
cfg_ipv6(st, pull) ==
    LET local6 == pull.local6
    IN  IF local6.present /\ ~pull.block_ipv6
        THEN Put(st,
                 <<Cmd("set", "address", "ipv6", local6.address, 0, tap_index_name, "", "store=active"),
                   NetshRoute("add", "ipv6", local6.gateway, local6.prefix_length, tap_index_name, ipv6_next_hop)>>,
                 <<Cmd("delete", "address", "ipv6", local6.address, 0, tap_index_name, "", "store=active"),
                   NetshRoute("delete", "ipv6", local6.gateway, local6.prefix_length, tap_index_name, ipv6_next_hop)>>)
        ELSE st

\* cfg_routes with an IPv4 route skipped, not refused, when there is no IPv4 ifconfig
RECURSIVE cfg_routes_skip(_, _, _)
cfg_routes_skip(st, pull, i) ==
    IF i > Len(pull.add_routes)
    THEN st
    ELSE LET route == pull.add_routes[i]
             fam == IF route.ipv6 THEN "ipv6" ELSE "ip"
             hop == IF route.ipv6 THEN ipv6_next_hop ELSE pull.local4.gateway
         IN  cfg_routes_skip(
               IF (route.ipv6 /\ ~pull.block_ipv6) \/ (~route.ipv6 /\ pull.local4.present)
               THEN Put(st,
                        <<NetshRoute("add", fam, route.address, route.prefix_length, tap_index_name, hop)>>,
                        <<NetshRoute("delete", fam, route.address, route.prefix_length, tap_index_name, hop)>>)
               ELSE st,
               pull, i + 1)

\* Process Routes: the loop over pull.add_routes from its i-th entry on
RECURSIVE cfg_routes(_, _, _)
cfg_routes(st, pull, i) ==
    IF i > Len(pull.add_routes) \/ st.err # "none"
    THEN st
    ELSE LET route == pull.add_routes[i]
         IN  IF route.ipv6
             THEN cfg_routes(
                    IF ~pull.block_ipv6
                    THEN Put(st,
                             <<NetshRoute("add", "ipv6", route.address, route.prefix_length, tap_index_name, ipv6_next_hop)>>,
                             <<NetshRoute("delete", "ipv6", route.address, route.prefix_length, tap_index_name, ipv6_next_hop)>>)
                    ELSE st,
                    pull, i + 1)
             ELSE IF pull.local4.present
                  THEN cfg_routes(
                         Put(st,
                             <<NetshRoute("add", "ip", route.address, route.prefix_length, tap_index_name, pull.local4.gateway)>>,
                             <<NetshRoute("delete", "ip", route.address, route.prefix_length, tap_index_name, pull.local4.gateway)>>),
                         pull, i + 1)
                  ELSE Throw(st, "MissingIfconfigError")

\* Process exclude routes: the loop over pull.exclude_routes (gw.defined())
RECURSIVE cfg_exclude_loop(_, _, _)
cfg_exclude_loop(st, pull, i) ==
    IF i > Len(pull.exclude_routes)
    THEN st
    ELSE LET route == pull.exclude_routes[i]
         IN  cfg_exclude_loop(
               IF route.ipv6
               THEN st
               ELSE Put(st,
                        <<NetshRoute("add", "ip", route.address, route.prefix_length, gw_interface_index, gw_gateway_address)>>,
                        <<NetshRoute("delete", "ip", route.address, route.prefix_length, gw_interface_index, gw_gateway_address)>>),
               pull, i + 1)

\* cfg_exclude with a throw where no default gateway is detected
cfg_exclude_fatal(st, pull, env) ==
    IF pull.exclude_routes = <<>>
    THEN st
    ELSE IF env.gw_defined
    THEN cfg_exclude_loop(st, pull, 1)
    ELSE Throw(st, "GatewayDetectionError")

\* Process exclude routes
cfg_exclude(st, pull, env) ==
    IF pull.exclude_routes # <<>> /\ env.gw_defined
    THEN cfg_exclude_loop(st, pull, 1)
    ELSE st

\* cfg_redirect4 with the route to the server queued whatever its family
cfg_redirect4_always_bypass(st, pull, env) ==
    IF ~pull.reroute_gw.ipv4
    THEN st
    ELSE IF ~env.gw_defined
    THEN Throw(st, "GatewayDetectionError")
    ELSE LET gateway == IF pull.local4.present THEN pull.local4.gateway ELSE env.ub
         IN  IF gateway = "crash"
             THEN Throw(st, "crash")
             ELSE Put(st,
                      <<NetshRoute("add", "ip", pull.remote_address.address, 32, gw_interface_index, gw_gateway_address),
                        NetshRoute("add", "ip", "0.0.0.0", 1, tap_index_name, gateway),
                        NetshRoute("add", "ip", "128.0.0.0", 1, tap_index_name, gateway)>>,
                      <<NetshRoute("delete", "ip", pull.remote_address.address, 32, gw_interface_index, gw_gateway_address),
                        NetshRoute("delete", "ip", "0.0.0.0", 1, tap_index_name, gateway),
                        NetshRoute("delete", "ip", "128.0.0.0", 1, tap_index_name, gateway)>>)

\* Process IPv4 redirect-gateway.  local4->gateway is read whether or not
\* local4 is null: through a null local4 the read is undefined, env.ub is
\* the outcome.
cfg_redirect4(st, pull, env) ==
    IF ~pull.reroute_gw.ipv4
    THEN st
    ELSE IF ~env.gw_defined
    THEN Throw(st, "GatewayDetectionError")
    ELSE LET bypass ==
                 IF ~pull.remote_address.ipv6
                 THEN Put(st,
                          <<NetshRoute("add", "ip", pull.remote_address.address, 32, gw_interface_index, gw_gateway_address)>>,
                          <<NetshRoute("delete", "ip", pull.remote_address.address, 32, gw_interface_index, gw_gateway_address)>>)
                 ELSE st
             split(gateway) ==
                 Put(bypass,
                     <<NetshRoute("add", "ip", "0.0.0.0", 1, tap_index_name, gateway),
                       NetshRoute("add", "ip", "128.0.0.0", 1, tap_index_name, gateway)>>,
                     <<NetshRoute("delete", "ip", "0.0.0.0", 1, tap_index_name, gateway),
                       NetshRoute("delete", "ip", "128.0.0.0", 1, tap_index_name, gateway)>>)
         IN  IF pull.local4.present
             THEN split(pull.local4.gateway)
             ELSE IF env.ub = "crash"
             THEN Throw(bypass, "crash")
             ELSE split(env.ub)

\* Process IPv6 redirect-gateway
cfg_redirect6(st, pull) ==
    IF pull.reroute_gw.ipv6 /\ ~pull.block_ipv6
    THEN Put(st,
             <<NetshRoute("add", "ipv6", "0::", 1, tap_index_name, ipv6_next_hop),
               NetshRoute("add", "ipv6", "8000::", 1, tap_index_name, ipv6_next_hop)>>,
             <<NetshRoute("delete", "ipv6", "0::", 1, tap_index_name, ipv6_next_hop),
               NetshRoute("delete", "ipv6", "8000::", 1, tap_index_name, ipv6_next_hop)>>)
    ELSE st

\* fix for vista and dnsserver vs win7+ dnsservers
dns_servers_cmd(env) == IF env.platform = "vista" THEN "dnsserver" ELSE "dnsservers"

validate_cmd(env) == IF env.platform = "vista" THEN "" ELSE "validate=no"

\* IsWindows8OrGreater()
use_nrpt(env) == env.platform = "win8"

\* iterate over pushed DNS server list, from its i-th entry on; ds carries
\* the lists and the per-protocol counters indices[IPv4], indices[IPv6]
RECURSIVE cfg_dns_loop(_, _, _, _)
cfg_dns_loop(ds, pull, env, i) ==
    IF i > Len(pull.dns_servers)
    THEN ds
    ELSE LET srv == pull.dns_servers[i]
             proto == IF srv.ipv6 THEN "ipv6" ELSE "ip"
             idx == IF srv.ipv6 THEN ds.n6 ELSE ds.n4
             counted == IF srv.ipv6 THEN [ds EXCEPT !.n6 = @ + 1] ELSE [ds EXCEPT !.n4 = @ + 1]
         IN  IF srv.ipv6 /\ pull.block_ipv6
             THEN cfg_dns_loop(ds, pull, env, i + 1)
             ELSE cfg_dns_loop(
                    [counted EXCEPT !.st =
                        IF idx # 0
                        THEN Put(@, <<Cmd("add", dns_servers_cmd(env), proto, srv.address, idx + 1,
                                          tap_index_name, "", validate_cmd(env))>>, <<>>)
                        ELSE Put(@, <<Cmd("set", dns_servers_cmd(env), proto, srv.address, 0,
                                          tap_index_name, "static register=primary", validate_cmd(env))>>,
                                    <<Cmd("delete", dns_servers_cmd(env), proto, "all", 0,
                                          tap_index_name, "", validate_cmd(env))>>)],
                    pull, env, i + 1)

\* domain suffix list: the non-empty search domains from the i-th on, each
\* made to begin with '.'
RECURSIVE search_suffixes(_, _)
search_suffixes(domains, i) ==
    IF i > Len(domains)
    THEN <<>>
    ELSE LET dom == domains[i].domain
         IN  (IF dom # <<>>
              THEN <<IF dom[1] # "." THEN <<".">> \o dom ELSE dom>>
              ELSE <<>>) \o search_suffixes(domains, i + 1)

\* nrpt_dsfx with the wildcard used whenever a gateway is rerouted, whether
\* or not a DNS server of that family was added
nrpt_dsfx_any_redirect(pull, n4, n6) ==
    LET dsfx == IF ~pull.reroute_gw.ipv4 /\ ~pull.reroute_gw.ipv6
                THEN search_suffixes(pull.search_domains, 1)
                ELSE <<>>
    IN  IF dsfx = <<>> THEN << <<".">> >> ELSE dsfx

\* the suffix list handed to NRPT::ActionCreate
nrpt_dsfx(pull, n4, n6) ==
    LET redir_dns4 == pull.reroute_gw.ipv4 /\ n4 # 0
        redir_dns6 == pull.reroute_gw.ipv6 /\ n6 # 0
        dsfx == IF ~redir_dns4 /\ ~redir_dns6
                THEN search_suffixes(pull.search_domains, 1)
                ELSE <<>>
    IN  IF dsfx = <<>> THEN << <<".">> >> ELSE dsfx

\* NRPT registry entries, if NRPT enabled and at least one DNS server was added
cfg_nrpt(ds, pull, env) ==
    IF use_nrpt(env) /\ (ds.n4 # 0 \/ ds.n6 # 0)
    THEN [ds EXCEPT !.st =
            Put(@,
                <<[Cmd("create", "nrpt", "", "", 0, "", "", "") EXCEPT
                     !.dsfx = nrpt_dsfx(pull, ds.n4, ds.n6),
                     !.dserv = [k \in 1..Len(pull.dns_servers) |-> pull.dns_servers[k].address]]>>,
                <<Cmd("delete", "nrpt", "", "", 0, "", "", "")>>)]
    ELSE ds

\* cfg_wfp without the test of openvpn_app_path
cfg_wfp_any_path(ds, env) ==
    IF env.platform = "win8" /\ (ds.n4 # 0 \/ ds.n6 # 0)
    THEN [ds EXCEPT !.st =
            Put(@,
                <<Cmd("block", "wfp", "", "openvpn_app_path", 0, tap_index_name, "", "")>>,
                <<Cmd("unblock", "wfp", "", "openvpn_app_path", 0, tap_index_name, "", "")>>)]
    ELSE ds

\* Use WFP for DNS leak protection, if we added DNS servers
cfg_wfp(ds, env) ==
    IF env.platform = "win8" /\ ~env.app_path_empty /\ (ds.n4 # 0 \/ ds.n6 # 0)
    THEN [ds EXCEPT !.st =
            Put(@,
                <<Cmd("block", "wfp", "", "openvpn_app_path", 0, tap_index_name, "", "")>>,
                <<Cmd("unblock", "wfp", "", "openvpn_app_path", 0, tap_index_name, "", "")>>)]
    ELSE ds

\* Process DNS Servers
cfg_dns(st, pull, env) ==
    cfg_wfp(cfg_nrpt(cfg_dns_loop([st |-> st, n4 |-> 0, n6 |-> 0], pull, env, 1), pull, env), env).st

\* cfg_wins with the delete of the servers forgotten
RECURSIVE cfg_wins_no_delete(_, _, _)
cfg_wins_no_delete(st, pull, i) ==
    IF i > Len(pull.wins_servers)
    THEN st
    ELSE LET ws == pull.wins_servers[i]
         IN  cfg_wins_no_delete(
               IF i # 1
               THEN Put(st, <<Cmd("add", "winsservers", "ip", ws.address, i, tap_index_name, "", "")>>, <<>>)
               ELSE Put(st, <<Cmd("set", "winsservers", "ip", ws.address, 0, tap_index_name, "static", "")>>, <<>>),
               pull, i + 1)

\* Process WINS Servers, from the i-th entry on
RECURSIVE cfg_wins(_, _, _)
cfg_wins(st, pull, i) ==
    IF i > Len(pull.wins_servers)
    THEN st
    ELSE LET ws == pull.wins_servers[i]
         IN  cfg_wins(
               IF i # 1
               THEN Put(st, <<Cmd("add", "winsservers", "ip", ws.address, i, tap_index_name, "", "")>>, <<>>)
               ELSE Put(st, <<Cmd("set", "winsservers", "ip", ws.address, 0, tap_index_name, "static", "")>>,
                            <<Cmd("delete", "winsservers", "ip", "all", 0, tap_index_name, "", "")>>),
               pull, i + 1)

\* adapter_config with the pushed routes processed before the interface
\* addresses are set
adapter_config_routes_first(pull, env, adapter) ==
    LET s0 == [create |-> <<>>, destroy |-> <<>>, err |-> "none",
               media |-> adapter.media, topology |-> adapter.topology]
        s1 == cfg_routes(cfg_begin(s0), pull, 1)
        s2 == IF s1.err # "none" THEN s1 ELSE cfg_ipv6(cfg_block_ipv6(cfg_ipv4(s1, pull), pull), pull)
        s3 == IF s2.err # "none" THEN s2 ELSE cfg_redirect4(cfg_exclude(s2, pull, env), pull, env)
        s4 == IF s3.err # "none" THEN s3
              ELSE Put(cfg_wins(cfg_dns(cfg_redirect6(s3, pull), pull, env), pull, 1),
                       <<FlushDns>>, <<FlushDns>>)
    IN  s4

\* adapter_config(th, openvpn_app_path, tap, pull, create, destroy, os),
\* started on two empty lists and the adapter as it is
adapter_config(pull, env, adapter) ==
    LET s0 == [create |-> <<>>, destroy |-> <<>>, err |-> "none",
               media |-> adapter.media, topology |-> adapter.topology]
        s1 == cfg_ipv6(cfg_block_ipv6(cfg_ipv4(cfg_begin(s0), pull), pull), pull)
        s2 == cfg_routes(s1, pull, 1)
        s3 == IF s2.err # "none" THEN s2 ELSE cfg_redirect4(cfg_exclude(s2, pull, env), pull, env)
        s4 == IF s3.err # "none" THEN s3
              ELSE Put(cfg_wins(cfg_dns(cfg_redirect6(s3, pull), pull, env), pull, 1),
                       <<FlushDns>>, <<FlushDns>>)
    IN  s4

(***************************************************************************)
(* The host: the configuration entries that commands add and delete.       *)
(***************************************************************************)
Entry(t, fam, key, num, ifc, hop) ==
    [t |-> t, fam |-> fam, key |-> key, num |-> num, ifc |-> ifc, hop |-> hop]

\* a route left on the adapter by an earlier process, and the host's own
\* default route
StaleRoute == Entry("route", "ip", "10.99.0.0", 16, tap_index_name, "10.99.0.1")

DefaultRoute == Entry("route", "ip", "0.0.0.0", 0, gw_interface_index, gw_gateway_address)

\* the entry a route, address, server or filter command names
EntryOf(a) ==
    CASE a.obj = "route" -> Entry("route", a.fam, a.arg, a.num, a.ifc, a.hop)
      [] a.obj = "address" -> Entry("address", a.fam, a.arg, 0, a.ifc, "")
      [] a.obj \in {"dnsservers", "dnsserver"} -> Entry("dns", a.fam, a.arg, 0, a.ifc, "")
      [] a.obj = "winsservers" -> Entry("wins", a.fam, a.arg, 0, a.ifc, "")
      [] a.obj = "nrpt" -> Entry("nrpt", "", "", 0, "", "")
      [] a.obj = "wfp" -> Entry("wfp", "", a.arg, 0, a.ifc, "")
      [] OTHER -> Entry("none", "", "", 0, "", "")

\* every server entry of the kind, family and interface the command names
ServersOf(host, a) ==
    {e \in host : e.t = EntryOf(a).t /\ e.fam = a.fam /\ e.ifc = a.ifc}

\* the host after command a succeeded
HostApply(host, a) ==
    CASE a.obj = "allroutes" ->
            host \ {e \in host : e.t = "route" /\ e.fam = a.fam /\ e.ifc = a.ifc}
      [] a.obj \in {"route", "address", "nrpt", "wfp"} ->
            IF a.verb \in {"add", "set", "create", "block"}
            THEN host \cup {EntryOf(a)}
            ELSE host \ {EntryOf(a)}
      [] a.obj \in {"dnsservers", "dnsserver", "winsservers"} ->
            IF a.verb = "set" THEN (host \ ServersOf(host, a)) \cup {EntryOf(a)}
            ELSE IF a.verb = "add" THEN host \cup {EntryOf(a)}
            ELSE host \ ServersOf(host, a)
      [] OTHER -> host

(***************************************************************************)
(* ActionList: execute() runs the actions in insertion order and stops at  *)
(* the first that fails; destroy() runs every action, whether or not       *)
(* others fail, and only when enable_destroy was set.                      *)
(***************************************************************************)
Event(ev, idx, ok) == [ev |-> ev, idx |-> idx, ok |-> ok]

\* the host after the first n of acts succeeded
RECURSIVE Applied(_, _, _)
Applied(h, acts, n) ==
    IF n = 0 THEN h ELSE HostApply(Applied(h, acts, n - 1), acts[n])

\* ActionList::execute: failAt = 0 when no action fails, else the index of
\* the first action that fails
ActionList_execute(h, acts, failAt) ==
    LET last_run == IF failAt = 0 THEN Len(acts) ELSE failAt
        n_ok == IF failAt = 0 THEN Len(acts) ELSE failAt - 1
    IN  [host |-> Applied(h, acts, n_ok),
         ok |-> failAt = 0,
         log |-> [i \in 1..last_run |-> Event("apply", i, i # failAt)]]

\* the host after the first n of acts were tried, those in F failing
RECURSIVE Undone(_, _, _, _)
Undone(h, acts, F, n) ==
    IF n = 0 THEN h
    ELSE LET before == Undone(h, acts, F, n - 1)
         IN  IF n \in F THEN before ELSE HostApply(before, acts[n])

\* ActionList::destroy on a list, the actions of F failing
ActionList_destroy(h, list, F) ==
    IF list.enable_destroy
    THEN [host |-> Undone(h, list.acts, F, Len(list.acts)),
          list |-> [list EXCEPT !.enable_destroy = FALSE, !.fresh = FALSE],
          ran |-> TRUE,
          log |-> [i \in 1..Len(list.acts) |-> Event("undo", i, i \notin F)]]
    ELSE [host |-> h, list |-> list, ran |-> FALSE, log |-> <<>>]

(***************************************************************************)
(* adapter_config (pre-Vista).  env.platform = "xp" stands for the build   *)
(* with _WIN32_WINNT < 0x0600.  env.dhcp tells whether DHCP is enabled on  *)
(* the adapter and whether enabling it works; env.up_at is the first poll  *)
(* at which the adapter is up with the VPN address, 0 when it never is.    *)
(* st.log lists what was done to the adapter and the polls, in order.      *)
(***************************************************************************)
\* for (int i = 1; i <= 30; ++i)
PollAttempts == 30

\* "route ADD|DELETE <address> MASK <netmask> <gateway>"
LegacyRoute(verb, address, prefix_length, hop) ==
    [Cmd(verb, "route", "ip", address, prefix_length, "", hop, "")
       EXCEPT !.mask = netmask_from_prefix_len(prefix_length)]

Note(st, ev, i, ok) == [st EXCEPT !.log = @ \o <<Event(ev, i, ok)>>]

\* Make sure the TAP adapter is set for DHCP
legacy_dhcp(st, env) ==
    IF env.dhcp = "enabled" THEN st
    ELSE IF env.dhcp = "enable-ok" THEN Note(st, "enable_dhcp", 0, TRUE)
    ELSE Throw(Note(st, "enable_dhcp", 0, FALSE), "EnableDhcpFailure")

\* topology, DHCP masquerade, media status, ARP flush, DHCP release/renew
legacy_prepare(st, pull) ==
    LET topo == IF pull.local4.present
                THEN [st EXCEPT !.topology = IF pull.local4.net30 THEN "net30" ELSE "subnet"]
                ELSE st
        masq == Note(topo, "dhcp_masquerade", 0, TRUE)
        conn == [masq EXCEPT !.media = TRUE]
    IN  Note(Note(Note(conn, "flush_arp", 0, TRUE), "dhcp_release", 0, TRUE), "dhcp_renew", 0, TRUE)

\* ai.is_up(tap.index, vpn_addr) at poll i
is_up(env, i) == env.up_at # 0 /\ i >= env.up_at

\* legacy_wait that polls once more
RECURSIVE legacy_wait_once_more(_, _, _)
legacy_wait_once_more(st, env, i) ==
    IF i > PollAttempts + 1
    THEN Throw(st, "DhcpHandshakeTimeoutError")
    ELSE IF is_up(env, i)
    THEN Note(st, "poll", i, TRUE)
    ELSE legacy_wait_once_more(Note(st, "poll", i, FALSE), env, i + 1)

\* Wait for TAP adapter to come up: the loop from its i-th round on
RECURSIVE legacy_wait(_, _, _)
legacy_wait(st, env, i) ==
    IF i > PollAttempts
    THEN Throw(st, "DhcpHandshakeTimeoutError")
    ELSE IF is_up(env, i)
    THEN Note(st, "poll", i, TRUE)
    ELSE legacy_wait(Note(st, "poll", i, FALSE), env, i + 1)

\* Process routes (pre-Vista), from the i-th entry on
RECURSIVE legacy_routes(_, _, _)
legacy_routes(st, pull, i) ==
    IF i > Len(pull.add_routes) \/ st.err # "none"
    THEN st
    ELSE LET route == pull.add_routes[i]
         IN  IF route.ipv6
             THEN legacy_routes(st, pull, i + 1)
             ELSE IF pull.local4.present
                  THEN legacy_routes(
                         Put(st,
                             <<LegacyRoute("add", route.address, route.prefix_length, pull.local4.gateway)>>,
                             <<LegacyRoute("delete", route.address, route.prefix_length, pull.local4.gateway)>>),
                         pull, i + 1)
                  ELSE Throw(st, "MissingIfconfigError")

\* Process exclude routes (pre-Vista), from the i-th entry on
RECURSIVE legacy_exclude_loop(_, _, _)
legacy_exclude_loop(st, pull, i) ==
    IF i > Len(pull.exclude_routes)
    THEN st
    ELSE LET route == pull.exclude_routes[i]
         IN  legacy_exclude_loop(
               IF route.ipv6
               THEN st
               ELSE Put(st,
                        <<LegacyRoute("add", route.address, route.prefix_length, gw_gateway_address)>>,
                        <<LegacyRoute("delete", route.address, route.prefix_length, gw_gateway_address)>>),
               pull, i + 1)

legacy_exclude(st, pull, env) ==
    IF pull.exclude_routes # <<>> /\ env.gw_defined
    THEN legacy_exclude_loop(st, pull, 1)
    ELSE st

\* Process IPv4 redirect-gateway (pre-Vista); local4->gateway is read
\* whether or not local4 is null, as on Vista
legacy_redirect4(st, pull, env) ==
    IF ~pull.reroute_gw.ipv4
    THEN st
    ELSE IF ~env.gw_defined
    THEN Throw(st, "GatewayDetectionError")
    ELSE LET bypass ==
                 IF ~pull.remote_address.ipv6
                 THEN Put(st,
                          <<LegacyRoute("add", pull.remote_address.address, 32, gw_gateway_address)>>,
                          <<LegacyRoute("delete", pull.remote_address.address, 32, gw_gateway_address)>>)
                 ELSE st
             split(gateway) ==
                 Put(bypass,
                     <<LegacyRoute("add", "0.0.0.0", 1, gateway), LegacyRoute("add", "128.0.0.0", 1, gateway)>>,
                     <<LegacyRoute("delete", "0.0.0.0", 1, gateway), LegacyRoute("delete", "128.0.0.0", 1, gateway)>>)
         IN  IF pull.local4.present
             THEN split(pull.local4.gateway)
             ELSE IF env.ub = "crash"
             THEN Throw(bypass, "crash")
             ELSE split(env.ub)

\* adapter_config for pre-Vista
adapter_config_legacy(pull, env, adapter) ==
    LET s0 == [create |-> <<>>, destroy |-> <<>>, err |-> "none",
               media |-> adapter.media, topology |-> adapter.topology, log |-> <<>>]
        s1 == legacy_dhcp(s0, env)
        s2 == IF s1.err # "none" THEN s1 ELSE legacy_wait(legacy_prepare(s1, pull), env, 1)
        s3 == IF s2.err # "none" THEN s2 ELSE legacy_routes(s2, pull, 1)
        s4 == IF s3.err # "none" THEN s3 ELSE legacy_redirect4(legacy_exclude(s3, pull, env), pull, env)
        s5 == IF s4.err # "none" THEN s4 ELSE Put(s4, <<FlushDns>>, <<FlushDns>>)
    IN  s5

\* the adapter_config the build was compiled with, and what it wrote
adapter_config_for(pull, env, adapter) ==
    IF env.platform = "xp"
    THEN adapter_config_legacy(pull, env, adapter)
    ELSE [create |-> adapter_config(pull, env, adapter).create,
          destroy |-> adapter_config(pull, env, adapter).destroy,
          err |-> adapter_config(pull, env, adapter).err,
          media |-> adapter_config(pull, env, adapter).media,
          topology |-> adapter_config(pull, env, adapter).topology,
          log |-> <<>>]

(***************************************************************************)
(* TunWin::Setup.                                                          *)
(***************************************************************************)
VARIABLES
    remove_cmds,   \* the member: the remove list, or no list
    host,          \* the host's network configuration
    adapter,       \* what was written to the TAP adapter
    life,          \* "alive", "destroyed" (~Setup ran) or "crashed"
    owed,          \* established sessions whose remove list has not been run
    rerun,         \* whether the remove list of a session was run a second time
    last,          \* the last call: its result, what it did, in order, and the call before
    cfg            \* the configuration offered to establish_cfg

vars == <<remove_cmds, host, adapter, life, owed, rerun, last, cfg>>

\* remove_cmds holds no ActionList
NoList == [defined |-> FALSE, acts |-> <<>>, enable_destroy |-> FALSE, fresh |-> FALSE]

\* remove_cmds.reset(new ActionList()); fresh: the list was never run
NewList == [defined |-> TRUE, acts |-> <<>>, enable_destroy |-> FALSE, fresh |-> TRUE]

\* Setup::destroy with remove_cmds->execute(os) for remove_cmds->destroy(os):
\* the list is run whether or not it was enabled
Setup_destroy_execute(list, h, F) ==
    IF list.defined
    THEN [remove_cmds |-> NoList,
          host |-> Undone(h, list.acts, F, Len(list.acts)),
          log |-> [i \in 1..Len(list.acts) |-> Event("undo", i, i \notin F)],
          ran |-> list.enable_destroy, again |-> list.enable_destroy /\ ~list.fresh]
    ELSE [remove_cmds |-> list, host |-> h, log |-> <<>>, ran |-> FALSE, again |-> FALSE]

\* Setup::destroy with remove_cmds.reset() forgotten
Setup_destroy_no_reset(list, h, F) ==
    IF list.defined
    THEN LET d == ActionList_destroy(h, list, F)
         IN  [remove_cmds |-> d.list, host |-> d.host, log |-> d.log,
              ran |-> d.ran, again |-> d.ran /\ ~list.fresh]
    ELSE [remove_cmds |-> list, host |-> h, log |-> <<>>, ran |-> FALSE, again |-> FALSE]

\* Setup::destroy that runs the list and keeps it, enabled
Setup_destroy_keep(list, h, F) ==
    IF list.defined
    THEN LET d == ActionList_destroy(h, list, F)
         IN  [remove_cmds |-> [list EXCEPT !.fresh = ~d.ran /\ list.fresh],
              host |-> d.host, log |-> d.log,
              ran |-> d.ran, again |-> d.ran /\ ~list.fresh]
    ELSE [remove_cmds |-> list, host |-> h, log |-> <<>>, ran |-> FALSE, again |-> FALSE]

\* Setup::destroy(os) on member list and host h, the undo commands of F failing
Setup_destroy(list, h, F) ==
    IF list.defined
    THEN LET d == ActionList_destroy(h, list, F)
         IN  [remove_cmds |-> NoList, host |-> d.host, log |-> d.log,
              ran |-> d.ran, again |-> d.ran /\ ~list.fresh]
    ELSE [remove_cmds |-> list, host |-> h, log |-> <<>>, ran |-> FALSE, again |-> FALSE]

\* establish() without the destroy(os) it starts with
est_close_old_skip(fr, F) == fr

\* establish(): close out old remove cmds, if they exist
est_close_old(fr, F) ==
    LET d == Setup_destroy(fr.remove_cmds, fr.host, F)
    IN  [fr EXCEPT !.remove_cmds = d.remove_cmds, !.host = d.host,
                   !.log = @ \o d.log, !.ran = d.ran, !.again = d.again]

\* establish(): open TAP device handle, throw if none could be opened
est_open(fr, env) ==
    IF env.tap_open
    THEN [fr EXCEPT !.th = "open", !.log = @ \o <<Event("tap_open", 0, TRUE)>>]
    ELSE [fr EXCEPT !.result = "AdapterAcquisitionError",
                    !.log = @ \o <<Event("tap_open", 0, FALSE)>>]

\* establish() building the lists before it looks at the handle
est_build_unchecked(fr, pull, env) ==
    LET st == adapter_config(pull, env, fr.adapter)
    IN  [fr EXCEPT !.remove_cmds = [NewList EXCEPT !.acts = st.destroy],
                   !.create = st.create,
                   !.adapter = [media |-> st.media, topology |-> st.topology],
                   !.log = @ \o <<Event("adapter_config", 0, st.err = "none")>>,
                   !.th = IF @ = "none" THEN @ ELSE IF st.err = "none" THEN @
                          ELSE IF st.err = "crash" THEN "lost" ELSE "closed",
                   !.result = IF @ # "running" THEN @ ELSE IF st.err = "none" THEN @ ELSE st.err]

\* establish(): create the ActionLists and populate them with adapter_config
est_build(fr, pull, env) ==
    IF fr.result # "running"
    THEN fr
    ELSE LET st == adapter_config_for(pull, env, fr.adapter)
         IN  [fr EXCEPT !.remove_cmds = [NewList EXCEPT !.acts = st.destroy],
                        !.create = st.create,
                        !.adapter = [media |-> st.media, topology |-> st.topology],
                        !.log = @ \o st.log \o <<Event("adapter_config", 0, st.err = "none")>>,
                        !.th = IF st.err = "none" THEN @ ELSE IF st.err = "crash" THEN "lost" ELSE "closed",
                        !.result = IF st.err = "none" THEN @ ELSE st.err]

\* establish() undoing what it applied when an add action fails
est_execute_rollback(fr, failAt) ==
    IF fr.result # "running"
    THEN fr
    ELSE LET x == ActionList_execute(fr.host, fr.create, failAt)
             acts == fr.remove_cmds.acts
         IN  [fr EXCEPT !.host = IF x.ok THEN x.host ELSE Undone(x.host, acts, {}, Len(acts)),
                        !.log = IF x.ok THEN @ \o x.log
                                ELSE @ \o x.log \o [i \in 1..Len(acts) |-> Event("undo", i, TRUE)],
                        !.th = IF x.ok THEN @ ELSE "closed",
                        !.result = IF x.ok THEN @ ELSE "ActionApplyFailure"]

\* establish() with a plain HANDLE for the ScopedHANDLE: nothing closes it
\* when an add action fails
est_execute_leak(fr, failAt) ==
    IF fr.result # "running"
    THEN fr
    ELSE LET x == ActionList_execute(fr.host, fr.create, failAt)
         IN  [fr EXCEPT !.host = x.host,
                        !.log = @ \o x.log,
                        !.result = IF x.ok THEN @ ELSE "ActionApplyFailure"]

\* establish(): execute the add actions
est_execute(fr, failAt) ==
    IF fr.result # "running"
    THEN fr
    ELSE LET x == ActionList_execute(fr.host, fr.create, failAt)
         IN  [fr EXCEPT !.host = x.host,
                        !.log = @ \o x.log,
                        !.th = IF x.ok THEN @ ELSE "closed",
                        !.result = IF x.ok THEN @ ELSE "ActionApplyFailure"]

\* establish() enabling the remove actions whether or not the add actions succeeded
est_enable_always(fr) ==
    IF fr.result # "running"
    THEN [fr EXCEPT !.remove_cmds.enable_destroy = fr.remove_cmds.defined]
    ELSE [fr EXCEPT !.remove_cmds.enable_destroy = TRUE,
                    !.log = @ \o <<Event("enable_destroy", 0, TRUE)>>,
                    !.th = "released",
                    !.result = "ok"]

\* establish(): now that the add actions have succeeded, enable the remove
\* actions and release the handle to the caller
est_enable(fr) ==
    IF fr.result # "running"
    THEN fr
    ELSE [fr EXCEPT !.remove_cmds.enable_destroy = TRUE,
                    !.log = @ \o <<Event("enable_destroy", 0, TRUE)>>,
                    !.th = "released",
                    !.result = "ok"]

\* where establish() starts
Frame == [remove_cmds |-> remove_cmds, host |-> host, adapter |-> adapter,
          log |-> <<>>, result |-> "running", th |-> "none", create |-> <<>>,
          ran |-> FALSE, again |-> FALSE]

\* whether adapter_config reads local4->gateway through a null local4
NullDeref(pull, env) ==
    env.tap_open /\ adapter_config_for(pull, [env EXCEPT !.ub = "crash"], adapter).err = "crash"

\* the undo commands that may fail when the member list is run, Flaky being
\* the positions at which a command may fail
UndoFailures(Flaky) ==
    IF remove_cmds.enable_destroy
    THEN {F \in FailSets(Len(remove_cmds.acts)) : F \subseteq Flaky}
    ELSE {{}}

\* the sessions still owed a run of their remove list, after a call that ran
\* the member list (ran) and established a session (ok)
Owed(ran, ok) ==
    LET left == IF ran /\ owed > 0 THEN owed - 1 ELSE owed
    IN  IF ok /\ left < 2 THEN left + 1 ELSE left

\* what a call records of the call before it
Prev == [op |-> last.op, result |-> last.result, acted |-> last.log # <<>>]

\* HANDLE establish(pull, openvpn_app_path, stop, os)
establish(pull, env0, Flaky) ==
    /\ life = "alive"
    /\ \E F \in UndoFailures(Flaky),
          ub \in (IF NullDeref(pull, env0) THEN UBOutcomes ELSE {"none"}) :
         \E built \in {est_build(est_open(est_close_old(Frame, F), [env0 EXCEPT !.ub = ub]),
                                 pull, [env0 EXCEPT !.ub = ub])} :
           \E failAt \in (IF built.result = "running"
                          THEN {k \in 0..Len(built.create) : k = 0 \/ k \in Flaky}
                          ELSE {0}) :
             \E fin \in {est_enable(est_execute(built, failAt))} :
                /\ remove_cmds' = fin.remove_cmds
                /\ host' = fin.host
                /\ adapter' = fin.adapter
                /\ life' = IF fin.result = "crash" THEN "crashed" ELSE life
                /\ owed' = Owed(fin.ran, fin.result = "ok")
                /\ rerun' = (rerun \/ fin.again)
                /\ last' = [op |-> "establish", result |-> fin.result, log |-> fin.log,
                            create |-> fin.create, th |-> fin.th, prev |-> Prev]
                /\ UNCHANGED cfg

\* what destroy(os) and ~Setup() do to the member, the host and the record
DestroyCall(op, Flaky) ==
    \E F \in UndoFailures(Flaky) :
      \E d \in {Setup_destroy(remove_cmds, host, F)} :
         /\ remove_cmds' = d.remove_cmds
         /\ host' = d.host
         /\ owed' = Owed(d.ran, FALSE)
         /\ rerun' = (rerun \/ d.again)
         /\ last' = [op |-> op, result |-> "ok", log |-> d.log, create |-> <<>>,
                     th |-> "none", prev |-> Prev]

\* void destroy(std::ostream& os)
destroy(Flaky) ==
    /\ life = "alive"
    /\ DestroyCall("destroy", Flaky)
    /\ UNCHANGED <<adapter, life, cfg>>

\* virtual ~Setup()
Setup_dtor(Flaky) ==
    /\ life = "alive"
    /\ DestroyCall("~Setup", Flaky)
    /\ life' = "destroyed"
    /\ UNCHANGED <<adapter, cfg>>

(***************************************************************************)
(* The configurations and environments establish() is called with.         *)
(***************************************************************************)
NullPull ==
    [local4 |-> NoAddr, local6 |-> NoAddr, add_routes |-> <<>>, exclude_routes |-> <<>>,
     reroute_gw |-> [ipv4 |-> FALSE, ipv6 |-> FALSE], block_ipv6 |-> FALSE,
     dns_servers |-> <<>>, search_domains |-> <<>>, wins_servers |-> <<>>,
     remote_address |-> Remote4]

NullEnv ==
    [tap_open |-> FALSE, gw_defined |-> FALSE, platform |-> "win8",
     app_path_empty |-> FALSE, ub |-> "none"]

\* the sessions of one Setup object: with and without an IPv4 ifconfig, a
\* pushed IPv4 route and redirect-gateway
LifecyclePulls ==
    [local4 : {NoAddr, Local4Subnet}, local6 : {NoAddr},
     add_routes : {<<>>, <<Route4>>}, exclude_routes : {<<>>},
     reroute_gw : [ipv4 : BOOLEAN, ipv6 : {FALSE}], block_ipv6 : {FALSE},
     dns_servers : {<<>>}, search_domains : {<<>>},
     wins_servers : {<<>>}, remote_address : {Remote4}]

LifecycleEnvs ==
    [tap_open : BOOLEAN, gw_defined : BOOLEAN, platform : {"win8"},
     app_path_empty : {FALSE}, ub : {"none"}]

\* one session over every pulled configuration within the bounds
ConfigPulls ==
    [local4 : {NoAddr, Local4Subnet}, local6 : {NoAddr, Local6Addr},
     add_routes : BoundedSeq({Route4, Route6}, MaxRoutes),
     exclude_routes : {<<>>, <<Exclude6, Exclude4>>},
     reroute_gw : [ipv4 : BOOLEAN, ipv6 : BOOLEAN], block_ipv6 : BOOLEAN,
     dns_servers : {<<>>, <<Dns4a>>, <<Dns6a>>, <<Dns4a, Dns4b>>, <<Dns6a, Dns4a, Dns6b>>},
     search_domains : {<<>>},
     wins_servers : {<<>>, <<Wins1, Wins2>>}, remote_address : {Remote4, Remote6}]

ConfigEnvs ==
    [tap_open : {TRUE}, gw_defined : BOOLEAN, platform : {"win8"},
     app_path_empty : {FALSE}, ub : {"none"}]

\* one session over every name-resolution configuration within the bounds,
\* on every Windows version and with and without openvpn_app_path
PolicyPulls ==
    [local4 : {NoAddr, Local4Subnet}, local6 : {NoAddr},
     add_routes : {<<>>}, exclude_routes : {<<>>},
     reroute_gw : [ipv4 : BOOLEAN, ipv6 : BOOLEAN], block_ipv6 : BOOLEAN,
     dns_servers : {<<>>, <<Dns4a>>, <<Dns6a>>, <<Dns4a, Dns4b>>, <<Dns6a, Dns4a, Dns6b>>},
     search_domains : BoundedSeq([domain : DomainChars], MaxDomains),
     wins_servers : {<<>>, <<Wins1, Wins2>>}, remote_address : {Remote4}]

PolicyEnvs ==
    [tap_open : {TRUE}, gw_defined : {TRUE}, platform : Platforms,
     app_path_empty : BOOLEAN, ub : {"none"}]

(***************************************************************************)
(* Specifications.                                                         *)
(***************************************************************************)
Fresh ==
    /\ remove_cmds = NoList
    /\ host = {StaleRoute, DefaultRoute}
    /\ adapter = [media |-> FALSE, topology |-> "none"]
    /\ life = "alive"
    /\ owed = 0
    /\ rerun = FALSE
    /\ last = [op |-> "none", result |-> "ok", log |-> <<>>, create |-> <<>>, th |-> "none",
               prev |-> [op |-> "none", result |-> "ok", acted |-> FALSE]]

Init == Fresh /\ cfg = [pull |-> NullPull, env |-> NullEnv]

\* any command may fail
establish_any == \E pull \in LifecyclePulls, env \in LifecycleEnvs : establish(pull, env, Nat)

destroy_any == destroy(Nat)

dtor_any == Setup_dtor(Nat)

Next == establish_any \/ destroy_any \/ dtor_any

\* a Setup object over its life: any calls of establish and destroy, then ~Setup
Spec == Init /\ [][Next]_vars

InitConfig == Fresh /\ cfg \in [pull : ConfigPulls, env : ConfigEnvs]

\* the first command of a list may fail
establish_cfg == last.op = "none" /\ establish(cfg.pull, cfg.env, {1})

destroy_cfg == destroy({1})

NextConfig == establish_cfg \/ destroy_cfg

\* one session of a Setup object, for every pulled configuration
SpecConfig == InitConfig /\ [][NextConfig]_vars

\* one session over every configuration the pre-Vista adapter_config reads
LegacyPulls ==
    [local4 : {NoAddr, Local4Subnet, Local4Net30}, local6 : {NoAddr},
     add_routes : BoundedSeq({Route4, Route6}, MaxRoutes),
     exclude_routes : {<<>>, <<Exclude6, Exclude4>>},
     reroute_gw : [ipv4 : BOOLEAN, ipv6 : {FALSE}], block_ipv6 : {FALSE},
     dns_servers : {<<>>}, search_domains : {<<>>},
     wins_servers : {<<>>}, remote_address : {Remote4, Remote6}]

LegacyEnvs ==
    [tap_open : {TRUE}, gw_defined : BOOLEAN, platform : {"xp"},
     app_path_empty : {FALSE}, ub : {"none"},
     dhcp : {"enabled", "enable-ok", "enable-fails"}, up_at : 0..MaxReadyPoll]

InitLegacy == Fresh /\ cfg \in [pull : LegacyPulls, env : LegacyEnvs]

\* one session of a Setup object built for pre-Vista
SpecLegacy == InitLegacy /\ [][NextConfig]_vars

InitPolicy == Fresh /\ cfg \in [pull : PolicyPulls, env : PolicyEnvs]

\* one session of a Setup object, for every name-resolution configuration
SpecPolicy == InitPolicy /\ [][NextConfig]_vars

(***************************************************************************)
(* Properties.                                                             *)
(***************************************************************************)
\* the events of one kind, in the order they happened
Events(log, ev) == SelectSeq(log, LAMBDA e : e.ev = ev)

\* events number 1, 2, ..., n, in that order
Counted(evs, n) == Len(evs) = n /\ \A i \in 1..n : evs[i].idx = i

\* the command adds an entry to the host
Adds(a) == a.verb \in {"add", "set", "create", "block"}

\* the step is a destroy() call, an establish() call
IsDestroy == last'.op = "destroy"

IsEstablish == last'.op = "establish"

\* the host a fresh Setup object starts on
InitialHost == {StaleRoute, DefaultRoute}

\* C1: whenever the remove list the object holds is enabled, the last call
\* was an establish that ran every action of the add list it built, each with
\* success, and returned the handle; no failed establish leaves an enabled list.
C1_ArmedOnlyAfterFullApply ==
    remove_cmds.enable_destroy =>
        /\ last.op = "establish"
        /\ last.result = "ok"
        /\ Counted(Events(last.log, "apply"), Len(last.create))
        /\ \A e \in {last.log[i] : i \in 1..Len(last.log)} : e.ev = "apply" => e.ok
        /\ \A i \in 1..Len(last.create) :
              Adds(last.create[i]) => EntryOf(last.create[i]) \in host

\* C1 happens: an enabled list after an add list of several actions was run
C1_Witness ==
    /\ remove_cmds.enable_destroy
    /\ Len(last.create) >= 4
    /\ Len(remove_cmds.acts) >= 3

\* C2: destroy() on an enabled list runs every action of it once and leaves
\* the object with no list; destroy() on an object with no list (never
\* established, or just torn down) runs nothing and changes nothing; on a
\* list that is not enabled it runs nothing.
C2_TeardownIdempotent ==
    [][IsDestroy =>
          /\ remove_cmds' = NoList
          /\ remove_cmds.enable_destroy =>
                Counted(Events(last'.log, "undo"), Len(remove_cmds.acts))
          /\ ~remove_cmds.enable_destroy =>
                last'.log = <<>> /\ host' = host
          /\ remove_cmds = NoList =>
                <<remove_cmds, host, adapter, life, owed, rerun>>' =
                <<remove_cmds, host, adapter, life, owed, rerun>>
          /\ last.op = "destroy" => last'.log = <<>>]_vars

\* C2 happens: a second destroy() right after the destroy() that tore an
\* established session down
C2_Witness ==
    /\ last.op = "destroy"
    /\ last.log = <<>>
    /\ last.prev.op = "destroy"
    /\ last.prev.acted

\* C3: destroy() on an enabled list tries every action of the list once, in
\* order, whichever of them fail; the undo commands that succeed take effect
\* also after one that failed; the call returns normally and the object
\* holds no list afterwards.
C3_TeardownBestEffort ==
    [][(IsDestroy /\ remove_cmds.enable_destroy) =>
          /\ Len(last'.log) = Len(remove_cmds.acts)
          /\ \A i \in 1..Len(remove_cmds.acts) :
                /\ last'.log[i].ev = "undo"
                /\ last'.log[i].idx = i
                /\ (last'.log[i].ok /\ remove_cmds.acts[i].obj \in {"route", "address"})
                      => EntryOf(remove_cmds.acts[i]) \notin host'
          /\ last'.result = "ok"
          /\ life' = "alive"
          /\ ~remove_cmds'.defined]_vars

\* C3 happens: a destroy() whose undo commands failed twice, a later one succeeding
C3_Witness ==
    /\ last.op = "destroy"
    /\ remove_cmds = NoList
    /\ \E i, j, k \in 1..Len(last.log) :
          i < j /\ j < k /\ ~last.log[i].ok /\ ~last.log[j].ok /\ last.log[k].ok

\* C4: the add list is run in insertion order up to the first action that
\* fails: the actions before it succeeded and their entries are on the host
\* when establish returns, no action after it was run, no undo ran after the
\* first add action, and establish fails without handing out the handle.
C4_CreateStopsAtFirstFailure ==
    last.op = "establish" =>
        LET applied == Events(last.log, "apply")
            n == Len(applied)
            first == IF n = 0 THEN Len(last.log) + 1
                     ELSE CHOOSE i \in 1..Len(last.log) :
                            last.log[i].ev = "apply" /\ last.log[i].idx = 1
        IN  /\ n <= Len(last.create)
            /\ Counted(applied, n)
            /\ \A i \in 1..n : applied[i].ok <=> (i < n \/ last.result = "ok")
            /\ \A i \in first..Len(last.log) : last.log[i].ev # "undo"
            /\ last.result = "ok" => n = Len(last.create)
            /\ last.result = "ActionApplyFailure" =>
                  /\ n >= 1
                  /\ last.th = "closed"
                  /\ ~remove_cmds.enable_destroy
                  /\ \A i \in 1..(n - 1) :
                        Adds(last.create[i]) => EntryOf(last.create[i]) \in host

\* C4 happens: an establish whose third add action of five or more failed
C4_Witness ==
    /\ last.op = "establish"
    /\ last.result = "ActionApplyFailure"
    /\ Len(Events(last.log, "apply")) = 3
    /\ Len(last.create) >= 5

\* C5: when establish failed partway through the add list, after an add
\* action had put an entry on the host, and destroy() is called next, destroy() runs the remove list built for that attempt and the
\* entries of the add actions that had succeeded are off the host.
C5_TeardownReversesPartialSetup ==
    [][( /\ IsDestroy
         /\ last.op = "establish"
         /\ last.result = "ActionApplyFailure"
         /\ \E i \in 1..(Len(Events(last.log, "apply")) - 1) : Adds(last.create[i]) ) =>
          /\ Counted(Events(last'.log, "undo"), Len(remove_cmds.acts))
          /\ \A i \in 1..(Len(Events(last.log, "apply")) - 1) :
                Adds(last.create[i]) => EntryOf(last.create[i]) \notin host']_vars

\* C6: after an establish that succeeded and a destroy() all of whose undo
\* commands succeeded, the host holds no entry it did not hold before the
\* session.
C6_RoundTrip ==
    ( /\ last.op = "destroy"
      /\ last.prev.op = "establish"
      /\ last.prev.result = "ok"
      /\ \A i \in 1..Len(last.log) : last.log[i].ok )
    => host \ InitialHost = {}

\* C6 happens: the session of a configuration with secondary DNS and WINS
\* servers, routes of both families and redirect-gateway was torn down
C6_Witness ==
    /\ last.op = "destroy"
    /\ last.prev.op = "establish"
    /\ last.prev.result = "ok"
    /\ Len(last.log) >= 10
    /\ \A i \in 1..Len(last.log) : last.log[i].ok
    /\ cfg.pull.dns_servers = <<Dns6a, Dns4a, Dns6b>>
    /\ cfg.pull.wins_servers = <<Wins1, Wins2>>
    /\ cfg.pull.add_routes = <<Route4, Route6>>
    /\ cfg.pull.reroute_gw.ipv4

\* C7: an establish called on an enabled remove list first runs that whole
\* list, then opens the adapter, and runs no undo after that; the list it
\* leaves, if any, is the new session's.
C7_OldSessionClosedFirst ==
    [][(IsEstablish /\ remove_cmds.enable_destroy) =>
          LET n == Len(remove_cmds.acts)
              log == last'.log
          IN  /\ Len(log) > n
              /\ \A i \in 1..n : log[i].ev = "undo" /\ log[i].idx = i
              /\ log[n + 1].ev = "tap_open"
              /\ \A i \in (n + 1)..Len(log) : log[i].ev # "undo"
              /\ remove_cmds'.defined => remove_cmds'.fresh]_vars

\* C7 happens: a second session was established over an enabled list
C7_Witness ==
    /\ last.op = "establish"
    /\ last.result = "ok"
    /\ last.prev.op = "establish"
    /\ last.prev.result = "ok"
    /\ Len(Events(last.log, "undo")) >= 3
    /\ Len(Events(last.log, "apply")) >= 4

\* C8: the remove list of an established session is run exactly once: it
\* is still owed exactly while the object holds it enabled, it is never run
\* again, and nothing is owed once ~Setup has run.
C8_DestroyRunsExactlyOnce ==
    /\ ~rerun
    /\ owed = IF remove_cmds.enable_destroy THEN 1 ELSE 0
    /\ life = "destroyed" => (owed = 0 /\ ~remove_cmds.defined)

\* C8 happens: ~Setup ran the list of a session that destroy() was never called on
C8_Witness ==
    /\ life = "destroyed"
    /\ last.op = "~Setup"
    /\ last.prev.op = "establish"
    /\ last.prev.result = "ok"
    /\ Len(Events(last.log, "undo")) >= 3

\* C9 as stated: an establish that fails to open an adapter ran no action
\* and left the host as it was, whatever list the object held.
C9_AdapterFailureChangesNothing ==
    [][(IsEstablish /\ last'.result = "AdapterAcquisitionError") =>
          /\ host' = host
          /\ Events(last'.log, "undo") = <<>>
          /\ Events(last'.log, "apply") = <<>>
          /\ last'.create = <<>>]_vars

\* C9 amended: an establish that fails to open an adapter built and ran no
\* action of the new session and wrote nothing to the adapter; if the object
\* held no enabled list the host is as it was; if it held one, that list was
\* run, whole, before the adapter was tried, the host lost entries only, and
\* the object holds no list.
C9_AdapterFailureOnlyClosesOld ==
    [][(IsEstablish /\ last'.result = "AdapterAcquisitionError") =>
          /\ Events(last'.log, "apply") = <<>>
          /\ last'.create = <<>>
          /\ remove_cmds' = NoList
          /\ adapter' = adapter
          /\ last'.th = "none"
          /\ last'.log[Len(last'.log)].ev = "tap_open"
          /\ ~remove_cmds.enable_destroy => (host' = host /\ Len(last'.log) = 1)
          /\ remove_cmds.enable_destroy =>
                /\ Counted(Events(last'.log, "undo"), Len(remove_cmds.acts))
                /\ Len(last'.log) = Len(remove_cmds.acts) + 1
                /\ host' \subseteq host]_vars

\* C9 happens: establish failed to open an adapter after it ran an enabled list
C9_Witness ==
    /\ last.op = "establish"
    /\ last.result = "AdapterAcquisitionError"
    /\ Len(Events(last.log, "undo")) >= 3
    /\ host # InitialHost

\* C10: with an IPv4 route among add_routes and no IPv4 ifconfig, establish
\* (the adapter opened) fails with MissingIfconfigError, no add action was
\* run, the host is untouched and the remove list is not enabled.
C10_Ipv4RouteNeedsIfconfig ==
    ( /\ last.op = "establish"
      /\ ~cfg.pull.local4.present
      /\ \E i \in 1..Len(cfg.pull.add_routes) : ~cfg.pull.add_routes[i].ipv6 )
    => /\ last.result = "MissingIfconfigError"
       /\ Events(last.log, "apply") = <<>>
       /\ host = InitialHost
       /\ ~remove_cmds.enable_destroy

\* C10 happens: the IPv4 route comes second, after an IPv6 route, in a
\* configuration that also asks for redirect-gateway and DNS servers
C10_Witness ==
    /\ last.op = "establish"
    /\ last.result = "MissingIfconfigError"
    /\ cfg.pull.add_routes = <<Route6, Route4>>
    /\ cfg.pull.reroute_gw.ipv4
    /\ cfg.env.gw_defined
    /\ cfg.pull.dns_servers # <<>>

\* the built lists: the add list of the last establish, the remove list it left
Built == last.op = "establish" /\ last.result \in {"ok", "ActionApplyFailure"}

\* how many actions of a list satisfy P
Count(acts, P(_)) == Len(SelectSeq(acts, P))

\* an add of one half of the IPv4 space through the tunnel
IsSplit4(a) ==
    a.verb = "add" /\ a.obj = "route" /\ a.fam = "ip" /\ a.num = 1 /\ a.ifc = tap_index_name
    /\ a.arg \in {"0.0.0.0", "128.0.0.0"}

\* an add of a host route to the server through the original gateway
IsBypass(a) ==
    a.verb = "add" /\ a.obj = "route" /\ a.num = 32 /\ a.arg = cfg.pull.remote_address.address
    /\ a.ifc = gw_interface_index /\ a.hop = gw_gateway_address

\* C11 as stated: an establish with reroute_gw.ipv4 fails with
\* GatewayDetectionError when no gateway is defined; when one is, the add list
\* holds the two split routes and one route to the server, whatever the
\* server's address.
C11_RedirectQueuesBypass ==
    (last.op = "establish" /\ cfg.pull.reroute_gw.ipv4 /\ last.result # "MissingIfconfigError") =>
        /\ ~cfg.env.gw_defined => last.result = "GatewayDetectionError"
        /\ (cfg.env.gw_defined /\ Built) =>
              /\ Count(last.create, IsSplit4) = 2
              /\ Count(last.create, IsBypass) = 1

\* C11 amended: an establish with reroute_gw.ipv4 whose routes were all
\* accepted fails with GatewayDetectionError when no gateway is defined; when
\* one is, the add list holds 0.0.0.0/1 and 128.0.0.0/1 through the tunnel,
\* once each, and the route to the server once when the server's address is
\* IPv4 and not at all when it is IPv6.
C11_RedirectBypassOnlyIpv4 ==
    (last.op = "establish" /\ cfg.pull.reroute_gw.ipv4 /\ last.result # "MissingIfconfigError") =>
        /\ ~cfg.env.gw_defined => last.result = "GatewayDetectionError"
        /\ (cfg.env.gw_defined /\ Built) =>
              /\ Count(last.create, IsSplit4) = 2
              /\ Count(last.create, LAMBDA a : IsSplit4(a) /\ a.arg = "0.0.0.0") = 1
              /\ Count(last.create, IsBypass) = IF cfg.pull.remote_address.ipv6 THEN 0 ELSE 1
              /\ Count(remove_cmds.acts, LAMBDA a : a.verb = "delete" /\ IsBypass([a EXCEPT !.verb = "add"]))
                    = IF cfg.pull.remote_address.ipv6 THEN 0 ELSE 1

\* C11 happens: a session with redirect-gateway to a server with an IPv6
\* address was established, the split routes in its add list
C11_Witness ==
    /\ last.op = "establish" /\ last.result = "ok"
    /\ cfg.pull.reroute_gw.ipv4 /\ cfg.env.gw_defined /\ cfg.pull.remote_address.ipv6
    /\ cfg.pull.local4.present
    /\ Count(last.create, IsSplit4) = 2
\* the action changes the host's configuration and is not the cleanup of
\* stale routes
Mutating(a) == a.obj # "allroutes"

\* a DNS or WINS server added by index, after the first of its family
IsSecondary(a) == a.verb = "add" /\ a.obj \in {"dnsservers", "dnsserver", "winsservers"}

\* remove action d reverses add action a
Reverses(d, a) ==
    IF a.obj \in {"dnsservers", "dnsserver", "winsservers"}
    THEN d.verb = "delete" /\ d.obj = a.obj /\ d.fam = a.fam /\ d.ifc = a.ifc /\ d.arg = "all"
    ELSE IF a.obj = "flushdns"
    THEN d = a
    ELSE d.verb \in {"delete", "unblock"} /\ d.obj = a.obj /\ EntryOf(d) = EntryOf(a)

\* C12 as stated: the remove list of a build that succeeded has as many
\* actions as the add list has actions that change the host.
C12_AsManyRemovesAsAdds ==
    Built => Count(last.create, Mutating) = Len(remove_cmds.acts)

\* C12 amended: in a build that succeeded the remove list is, action for
\* action and in the same order, the reverse of the actions of the add list
\* other than the cleanup of stale routes and the DNS and WINS servers added
\* by index; a server added by index has no remove action of its own and is
\* reversed by the "delete all" of the first server of its family, so the
\* remove list is shorter than the add list by the cleanup and those servers.
C12_EveryAddReversedOnce ==
    Built =>
        LET first == SelectSeq(last.create, LAMBDA a : Mutating(a) /\ ~IsSecondary(a))
        IN  /\ Len(first) = Len(remove_cmds.acts)
            /\ \A j \in 1..Len(first) : Reverses(remove_cmds.acts[j], first[j])
            /\ \A i \in 1..Len(last.create) :
                  IsSecondary(last.create[i]) =>
                     \E j \in 1..Len(remove_cmds.acts) : Reverses(remove_cmds.acts[j], last.create[i])
            /\ Count(last.create, Mutating) = Len(remove_cmds.acts) + Count(last.create, IsSecondary)

\* C12 happens: a session with two IPv6 DNS servers, an IPv4 one and two
\* WINS servers was built on Vista
C12_Witness ==
    /\ Built
    /\ cfg.env.platform = "vista"
    /\ Count(last.create, IsSecondary) = 2
    /\ Len(remove_cmds.acts) >= 4
\* the actions of both lists of the last establish
Queued == last.create \o remove_cmds.acts

\* an action that names an IPv6 DNS server: a netsh command of the IPv6
\* DNS servers, or a rule whose server list holds the address of one
CarriesIpv6Dns(a) ==
    \/ a.obj \in {"dnsservers", "dnsserver"} /\ a.fam = "ipv6"
    \/ \E k \in 1..Len(a.dserv) :
          \E j \in 1..Len(cfg.pull.dns_servers) :
             cfg.pull.dns_servers[j].ipv6 /\ cfg.pull.dns_servers[j].address = a.dserv[k]

\* the three routes of block_ipv6_net, under verb, in order
Blackholes(acts, verb) ==
    SelectSeq(acts, LAMBDA a : a.verb = verb /\ a.obj = "route" /\ a.fam = "ipv6" /\ a.ifc = "1")

\* no IPv6 address and no IPv6 route through the tunnel is queued, and the
\* three routes of block_ipv6_net are, with their deletes
NoIpv6ButBlackholes ==
    /\ \A i \in 1..Len(Queued) :
          /\ ~(Queued[i].obj = "address" /\ Queued[i].fam = "ipv6")
          /\ ~(Queued[i].obj = "route" /\ Queued[i].fam = "ipv6" /\ Queued[i].ifc = tap_index_name)
    /\ [i \in 1..3 |-> <<Blackholes(last.create, "add")[i].arg, Blackholes(last.create, "add")[i].num>>]
          = << <<"2000::", 4>>, <<"3000::", 4>>, <<"fc00::", 7>> >>
    /\ Len(Blackholes(last.create, "add")) = 3
    /\ Blackholes(remove_cmds.acts, "delete")
          = [i \in 1..3 |-> [Blackholes(last.create, "add")[i] EXCEPT !.verb = "delete"]]

\* C13: after an establish with block_ipv6 the lists hold no IPv6 address
\* action, no IPv6 route through the tunnel and no action that names an
\* IPv6 DNS server, and they hold the three routes of block_ipv6_net with
\* their deletes, whatever else was pulled and however the build ended.
C13_BlockIpv6QueuesNoIpv6 ==
    (last.op = "establish" /\ cfg.pull.block_ipv6) =>
        /\ NoIpv6ButBlackholes
        /\ \A i \in 1..Len(Queued) : ~CarriesIpv6Dns(Queued[i])
\* the NRPT rules of the add list
NrptRules == SelectSeq(last.create, LAMBDA a : a.verb = "create" /\ a.obj = "nrpt")

\* the search domains that are not empty, each with a leading "."
DottedDomains ==
    LET named == SelectSeq(cfg.pull.search_domains, LAMBDA sd : sd.domain # <<>>)
    IN  [i \in 1..Len(named) |->
            IF Head(named[i].domain) = "." THEN named[i].domain ELSE <<".">> \o named[i].domain]

\* the wildcard alone
Wildcard == << <<".">> >>

\* a DNS server of the family is configured on the adapter
DnsConfigured(ipv6) ==
    \E j \in 1..Len(cfg.pull.dns_servers) :
       cfg.pull.dns_servers[j].ipv6 = ipv6 /\ ~(ipv6 /\ cfg.pull.block_ipv6)

IsSetAddress4(a) == a.verb = "set" /\ a.obj = "address" /\ a.fam = "ip"

IsPushedRoute(a) ==
    a.verb = "add" /\ a.obj = "route" /\ a.ifc = tap_index_name
    /\ \E k \in 1..Len(cfg.pull.add_routes) :
          cfg.pull.add_routes[k].address = a.arg /\ cfg.pull.add_routes[k].prefix_length = a.num

IsAfterRoutes(a) ==
    \/ a.verb = "add" /\ a.obj = "route" /\ a.ifc = gw_interface_index
    \/ a.verb = "add" /\ a.obj = "route" /\ a.num = 1
    \/ a.obj \in {"dnsservers", "dnsserver", "winsservers", "nrpt", "wfp"}

\* every action of acts that satisfies P comes before every one that satisfies Q
Precedes(acts, P(_), Q(_)) ==
    \A i, j \in 1..Len(acts) : (P(acts[i]) /\ Q(acts[j])) => i < j

\* C15: the add list of a build that succeeded starts with the cleanup of
\* stale routes, which occurs once; the set of the IPv4 address comes before
\* every pushed route; every pushed route comes before the exclude routes,
\* the redirect-gateway routes and the DNS and WINS actions; the flush of
\* the DNS cache is last.  The remove list holds no cleanup, holds a reverse
\* for every other action of the add list, and ends with the flush.
C15_RuleOrder ==
    Built =>
        /\ Head(last.create) = ActionDeleteAllRoutesOnInterface
        /\ Count(Queued, LAMBDA a : ~Mutating(a)) = 1
        /\ Precedes(last.create, IsSetAddress4, IsPushedRoute)
        /\ Precedes(last.create, IsPushedRoute, IsAfterRoutes)
        /\ last.create[Len(last.create)] = FlushDns
        /\ Count(last.create, LAMBDA a : a = FlushDns) = 1
        /\ remove_cmds.acts[Len(remove_cmds.acts)] = FlushDns
        /\ \A i \in 2..Len(last.create) :
              \E j \in 1..Len(remove_cmds.acts) : Reverses(remove_cmds.acts[j], last.create[i])

\* C15 happens: a list with the address, a pushed route, an exclude route,
\* the redirect-gateway routes, DNS and WINS servers was built
C15_Witness ==
    /\ Built
    /\ Count(last.create, IsSetAddress4) = 1
    /\ Count(last.create, IsPushedRoute) = 2
    /\ Count(last.create, IsSplit4) = 2
    /\ Count(last.create, IsAfterRoutes) >= 9
    /\ last.create[3].arg = Route6.address
\* the delete of the IPv4 address of the adapter, and the delete of an IPv4
\* route through the adapter
IsDeleteAddress4(a) == a.verb = "delete" /\ a.obj = "address" /\ a.fam = "ip"

IsDeleteTunRoute4(a) ==
    a.verb = "delete" /\ a.obj = "route" /\ a.fam = "ip" /\ a.ifc = tap_index_name

\* C16: a destroy() that runs the remove list of an established session
\* tries the delete of every IPv4 route through the adapter before it tries
\* the delete of the adapter's IPv4 address, the reverse of the order in
\* which establish set the address and added the routes.
C16_RoutesDeletedBeforeAddress ==
    [][(IsDestroy /\ remove_cmds.enable_destroy) =>
          \A i, j \in 1..Len(last'.log) :
             ( /\ last'.log[i].ev = "undo" /\ last'.log[j].ev = "undo"
               /\ IsDeleteTunRoute4(remove_cmds.acts[last'.log[i].idx])
               /\ IsDeleteAddress4(remove_cmds.acts[last'.log[j].idx]) ) => i < j]_vars
\* C17: in the add list of every establish the two split routes of the
\* IPv4 redirect-gateway come after a set of the IPv4 address; an establish
\* with reroute_gw.ipv4 and no IPv4 ifconfig ends in an error of the program
\* or in lists without the split routes, never in a crash and never with
\* split routes through a gateway that was not configured.
C17_SplitRoutesAfterSetAddress ==
    last.op = "establish" =>
        /\ \A j \in 1..Len(last.create) :
              IsSplit4(last.create[j]) => \E i \in 1..(j - 1) : IsSetAddress4(last.create[i])
        /\ (cfg.pull.reroute_gw.ipv4 /\ ~cfg.pull.local4.present) =>
              /\ last.result # "crash"
              /\ life = "alive"
              /\ Count(last.create, IsSplit4) = 0
\* the actions of a list on a route of pull.exclude_routes
OnExcluded(acts) ==
    SelectSeq(acts, LAMBDA a :
        a.obj = "route" /\ \E k \in 1..Len(cfg.pull.exclude_routes) :
                              cfg.pull.exclude_routes[k].address = a.arg)

\* the IPv4 routes of pull.exclude_routes, in order
Excluded4 == SelectSeq(cfg.pull.exclude_routes, LAMBDA r : ~r.ipv6)

\* C18: in an establish with exclude routes whose pushed routes were
\* accepted: when no default gateway is defined no action on an exclude route
\* is queued; when one is, the add list holds one add through the original
\* gateway per IPv4 exclude route, in order, the remove list the delete of
\* each, and neither holds an action for an IPv6 exclude route.  Either way
\* the build goes on with the next rules: without reroute_gw.ipv4 it ends
\* with the flush queued and no error.
C18_ExcludeRoutesSoftFailure ==
    (last.op = "establish" /\ cfg.pull.exclude_routes # <<>>
        /\ last.result # "MissingIfconfigError") =>
        /\ ~cfg.env.gw_defined => OnExcluded(Queued) = <<>>
        /\ cfg.env.gw_defined =>
              /\ OnExcluded(last.create) =
                    [k \in 1..Len(Excluded4) |->
                        NetshRoute("add", "ip", Excluded4[k].address, Excluded4[k].prefix_length,
                                   gw_interface_index, gw_gateway_address)]
              /\ OnExcluded(remove_cmds.acts) =
                    [k \in 1..Len(Excluded4) |->
                        NetshRoute("delete", "ip", Excluded4[k].address, Excluded4[k].prefix_length,
                                   gw_interface_index, gw_gateway_address)]
        /\ ~cfg.pull.reroute_gw.ipv4 =>
              /\ Built
              /\ last.create[Len(last.create)] = FlushDns

\* C18 happens: a session with an IPv6 and an IPv4 exclude route was
\* established with no default gateway, its DNS servers queued all the same
C18_Witness ==
    /\ last.op = "establish" /\ last.result = "ok"
    /\ cfg.pull.exclude_routes = <<Exclude6, Exclude4>>
    /\ ~cfg.env.gw_defined
    /\ OnExcluded(Queued) = <<>>
    /\ Count(last.create, LAMBDA a : a.obj = "dnsservers") = 3
\* the WFP pair is queued: one block in the add list, one unblock in the
\* remove list; or neither is
WfpQueued ==
    /\ Count(last.create, LAMBDA a : a.obj = "wfp" /\ a.verb = "block") = 1
    /\ Count(remove_cmds.acts, LAMBDA a : a.obj = "wfp" /\ a.verb = "unblock") = 1

WfpAbsent == Count(Queued, LAMBDA a : a.obj = "wfp") = 0

\* C19 as stated: in a build that succeeded the WFP pair is queued when the
\* system is Windows 8 or later and a DNS server was configured on the
\* adapter, whatever openvpn_app_path is, and is absent otherwise.
C19_WfpIffPlatformAndDns ==
    Built =>
        IF cfg.env.platform = "win8" /\ (DnsConfigured(FALSE) \/ DnsConfigured(TRUE))
        THEN WfpQueued
        ELSE WfpAbsent

\* C19 amended: in a build that succeeded the WFP pair is queued when the
\* system is Windows 8 or later, openvpn_app_path is not empty and a DNS
\* server was configured on the adapter, and is absent otherwise.
C19_WfpIffPlatformDnsAndAppPath ==
    Built =>
        IF /\ cfg.env.platform = "win8"
           /\ ~cfg.env.app_path_empty
           /\ (DnsConfigured(FALSE) \/ DnsConfigured(TRUE))
        THEN WfpQueued
        ELSE WfpAbsent

\* C19 happens: on Windows 8 with DNS servers and an empty openvpn_app_path
\* the NRPT rule was queued and the WFP pair was not
C19_Witness ==
    /\ Built
    /\ cfg.env.platform = "win8" /\ cfg.env.app_path_empty
    /\ Len(NrptRules) = 1
    /\ Count(last.create, LAMBDA a : a.obj = "dnsservers") = 2
    /\ WfpAbsent
\* the establish of the step threw out of adapter_config
BuildFailed == IsEstablish /\ last'.result \in {"MissingIfconfigError", "GatewayDetectionError"}

\* C20 as stated: adapter_config writes nothing but the two lists: an
\* establish leaves media status and topology of the adapter as they were,
\* and one that fails in adapter_config leaves the host as it was too.
C20_BuildTouchesNothing ==
    [][(IsEstablish => adapter' = adapter) /\ (BuildFailed => host' = host)]_vars

\* C20 amended: adapter_config changes nothing of the host's configuration,
\* so an establish that fails in it ran no action and leaves the host as it
\* was; but it does write to the adapter through the handle: after every
\* establish that opened an adapter and did not crash the media status is
\* CONNECTED, and the topology is the one of the IPv4 ifconfig when there is
\* one, whether or not the build then failed.
C20_BuildWritesAdapterOnly ==
    [][( BuildFailed =>
           /\ host' = host
           /\ Events(last'.log, "apply") = <<>> )
       /\ ( (IsEstablish /\ cfg.env.tap_open /\ last'.result # "crash") =>
              /\ adapter'.media = TRUE
              /\ adapter'.topology =
                    IF ~cfg.pull.local4.present THEN adapter.topology
                    ELSE IF cfg.pull.local4.net30 THEN "net30" ELSE "subnet" )]_vars

\* C20 happens: an establish failed with GatewayDetectionError, the host
\* untouched, the adapter CONNECTED and in subnet topology
C20_Witness ==
    /\ last.op = "establish" /\ last.result = "GatewayDetectionError"
    /\ host = InitialHost
    /\ adapter = [media |-> TRUE, topology |-> "subnet"]
\* the polls of the adapter the last establish made, in order
Polls == Events(last.log, "poll")

\* the IPv4 routes of pull.add_routes
Pushed4 == SelectSeq(cfg.pull.add_routes, LAMBDA r : ~r.ipv6)

\* C21: the pre-Vista establish polls the adapter at most 30 times, polls
\* 1, 2, ... in order, and stops at the first poll that finds the adapter
\* up, which is the first poll at which it is up; after that poll the build
\* goes on to the routes, and when it succeeds the add list holds every
\* pushed IPv4 route and ends with the flush.  When the adapter is up at
\* none of the 30 polls, establish made all 30, fails with
\* DhcpHandshakeTimeoutError, and both lists are empty: no route, no
\* redirect-gateway route and no flush is queued, and no action ran.
C21_ReadinessWaitBounded ==
    (last.op = "establish" /\ cfg.env.dhcp # "enable-fails") =>
        /\ Len(Polls) \in 1..30
        /\ Counted(Polls, Len(Polls))
        /\ \A i \in 1..(Len(Polls) - 1) : ~Polls[i].ok
        /\ Polls[Len(Polls)].ok <=> cfg.env.up_at \in 1..30
        /\ Polls[Len(Polls)].ok =>
              /\ Len(Polls) = cfg.env.up_at
              /\ last.result # "DhcpHandshakeTimeoutError"
              /\ Built =>
                    /\ Len(SelectSeq(last.create, LAMBDA a : a.verb = "add" /\ a.obj = "route"
                                         /\ a.hop = cfg.pull.local4.gateway /\ a.num \notin {1, 32}))
                          = Len(Pushed4)
                    /\ last.create[Len(last.create)] = FlushDns
        /\ ~Polls[Len(Polls)].ok =>
              /\ Len(Polls) = 30
              /\ last.result = "DhcpHandshakeTimeoutError"
              /\ Queued = <<>>
              /\ Events(last.log, "apply") = <<>>
              /\ host = InitialHost

\* C21 happens: the adapter came up at the 30th poll and the session, two
\* pushed routes in its add list, was established
C21_Witness ==
    /\ last.op = "establish" /\ last.result = "ok"
    /\ Len(Polls) = 30 /\ Polls[30].ok
    /\ Len(Pushed4) = 2
    /\ Len(last.create) >= 3
\* C22: after every establish that returned, the handle it opened is in
\* one place: released to the caller when establish succeeded, closed when
\* adapter_config threw or an add action failed, and never opened when no
\* adapter could be opened; no establish returns with the handle still open
\* in its own scope, and the handle is released only by an establish that
\* succeeded and left the remove list enabled.
C22_HandleOwnership ==
    (last.op = "establish" /\ last.result # "crash") =>
        /\ last.th \in {"none", "closed", "released"}
        /\ last.th = "released" <=> last.result = "ok"
        /\ last.th = "none" <=> last.result = "AdapterAcquisitionError"
        /\ last.result \in {"MissingIfconfigError", "GatewayDetectionError", "ActionApplyFailure"}
              => last.th = "closed"
        /\ last.th = "released" => remove_cmds.enable_destroy

\* C22 happens: an add action of the second session failed after its
\* adapter was opened and the list of the first session was run
C22_Witness ==
    /\ last.op = "establish" /\ last.result = "ActionApplyFailure"
    /\ last.th = "closed"
    /\ Events(last.log, "undo") # <<>>
    /\ Len(Events(last.log, "apply")) >= 2
====
